---- MODULE Spec2Model ----
(***************************************************************************)
(* Model of src/a5.py: the Sudoku Board (candidate lists, update with      *)
(* row/column/subgrid elimination, most-constrained-cell scan, goal and    *)
(* failure tests) and the depth-first search DFS over deep copies of the   *)
(* board, driven by test_dfs_or_bfs (seed the moves, then solve), and the   *)
(* unfinished BFS, which only empties its queue.                           *)
(*                                                                         *)
(* Python objects live in a heap: a Board is referred to by a reference,   *)
(* the stack holds references, and copy.deepcopy allocates a new object.   *)
(* A cell is [int |-> v] once assigned and [list |-> <<...>>] while it     *)
(* still holds its list of possibilities (isinstance(cell, list)).         *)
(* curr of BFS is bfs_curr; pushed records the cells of every board that   *)
(* has been on the stack of the running DFS.                               *)
(***************************************************************************)
EXTENDS Integers, Sequences, FiniteSets, TLC

VARIABLES moves, nfree, heap, pc, stack, curr, row, col, possibilities, pi,
          count, result, queue, bfs_curr, pushed

vars == <<moves, nfree, heap, pc, stack, curr, row, col, possibilities, pi,
          count, result, queue, bfs_curr, pushed>>

(***************************************************************************)
(* Bounds of the explored inputs.                                          *)
(***************************************************************************)
\* number of free moves appended to first_moves or to a prefix of the
\* pattern grid
MaxSeeds == 1
\* free moves are only appended to pattern prefixes of at least this many
\* cells
DenseFrom == 72
\* DFS is started on the empty board, on first_moves, or on a prefix of the
\* pattern grid of at least this many cells
MinMoves == 27

(***************************************************************************)
(* Program constants and Python values.                                    *)
(***************************************************************************)
size == 9
None == -1
b == 0

Idx == 0 .. (size - 1)

IntCell(v) == [int |-> v]
ListCell(s) == [list |-> s]
isinstance_list(cell) == "list" \in DOMAIN cell
isinstance_int(cell) == "int" \in DOMAIN cell

\* list(range(9, 0, -1)) in place of list(range(1, 10))
range_9_0 == <<9, 8, 7, 6, 5, 4, 3, 2, 1>>

\* list(range(1, 10))
range_1_10 == <<1, 2, 3, 4, 5, 6, 7, 8, 9>>

\* elem in lst
In(elem, lst) == \E k \in 1 .. Len(lst) : lst[k] = elem

\* lst.pop() in place of lst.remove(elem): drops the last element
ListRemove_pop(lst, elem) == SubSeq(lst, 1, Len(lst) - 1)

\* lst.remove(elem): drops the first occurrence of elem
ListRemove(lst, elem) ==
    LET k == CHOOSE j \in 1 .. Len(lst) :
                 lst[j] = elem /\ \A m \in 1 .. (j - 1) : lst[m] # elem
    IN  SubSeq(lst, 1, k - 1) \o SubSeq(lst, k + 1, Len(lst))

\* remove_if_exists without the removal
remove_if_exists_keep(cell, elem) == cell

remove_if_exists(cell, elem) ==
    IF isinstance_list(cell) /\ In(elem, cell.list)
    THEN ListCell(ListRemove(cell.list, elem))
    ELSE cell

\* Board.__init__
Board_init ==
    [size |-> size,
     num_nums_placed |-> 0,
     rows |-> [i \in Idx |-> [j \in Idx |-> ListCell(range_1_10)]]]

subgrids == <<<<0, 1, 2>>, <<3, 4, 5>>, <<6, 7, 8>>>>

\* subgrids[col % 3] and subgrids[row % 3] in place of // 3
subgrid_coordinates_mod(r0, c0) ==
    [k \in 1 .. 9 |->
        <<subgrids[(r0 % 3) + 1][((k - 1) % 3) + 1],
          subgrids[(c0 % 3) + 1][((k - 1) \div 3) + 1]>>]

\* [(r, c) for c in subgrids[col // 3] for r in subgrids[row // 3]]
subgrid_coordinates(r0, c0) ==
    [k \in 1 .. 9 |->
        <<subgrids[(r0 \div 3) + 1][((k - 1) % 3) + 1],
          subgrids[(c0 \div 3) + 1][((k - 1) \div 3) + 1]>>]

\* the scan with <= in place of <: keeps the last cell of minimum length
RECURSIVE mcc_cols_le(_, _, _, _)
mcc_cols_le(self, i, j, acc) ==
    IF j = self.size THEN acc
    ELSE LET cell == self.rows[i][j]
         IN  IF isinstance_list(cell) /\ Len(cell.list) <= acc.mini
             THEN mcc_cols_le(self, i, j + 1,
                              [mini |-> Len(cell.list), row |-> i, col |-> j])
             ELSE mcc_cols_le(self, i, j + 1, acc)

\* for j in range(self.size): the scan of row i from column j
RECURSIVE mcc_cols(_, _, _, _)
mcc_cols(self, i, j, acc) ==
    IF j = self.size THEN acc
    ELSE LET cell == self.rows[i][j]
         IN  IF isinstance_list(cell) /\ Len(cell.list) < acc.mini
             THEN mcc_cols(self, i, j + 1,
                           [mini |-> Len(cell.list), row |-> i, col |-> j])
             ELSE mcc_cols(self, i, j + 1, acc)

\* for i in range(self.size): the scan from row i
RECURSIVE mcc_rows(_, _, _)
mcc_rows(self, i, acc) ==
    IF i = self.size THEN acc
    ELSE mcc_rows(self, i + 1, mcc_cols(self, i, 0, acc))

\* the scan returning (col, row) in place of (row, col)
find_most_constrained_cell_swapped(self) ==
    LET acc == mcc_rows(self, 0, [mini |-> self.size, row |-> 0, col |-> 0])
    IN  <<acc.col, acc.row>>

find_most_constrained_cell(self) ==
    LET acc == mcc_rows(self, 0, [mini |-> self.size, row |-> 0, col |-> 0])
    IN  <<acc.row, acc.col>>

\* not cell: an empty list, or the integer 0
Falsy(cell) ==
    IF isinstance_list(cell) THEN Len(cell.list) = 0 ELSE cell.int = 0

\* the failure test with 'if cell' in place of 'if not cell'
failure_test_truthy(self) ==
    \E i \in Idx : \E j \in Idx : ~ Falsy(self.rows[i][j])

failure_test(self) ==
    \E i \in Idx : \E j \in Idx : Falsy(self.rows[i][j])

\* the goal test with > in place of ==
goal_test_gt(self) == self.num_nums_placed > self.size * self.size

goal_test(self) == self.num_nums_placed = self.size * self.size

\* update without its subgrid loop
update_coords_rowcol(self, r0, c0) ==
    [k \in 1 .. (2 * self.size) |->
        IF k % 2 = 1 THEN <<r0, (k - 1) \div 2>>
                     ELSE <<(k - 1) \div 2, c0>>]

\* update with rows[column][i] in place of rows[i][column]
update_coords_transposed(self, r0, c0) ==
    [k \in 1 .. (2 * self.size) |->
        IF k % 2 = 1 THEN <<r0, (k - 1) \div 2>>
                     ELSE <<c0, (k - 1) \div 2>>]
    \o subgrid_coordinates(r0, c0)

\* update without the removal along the row
update_coords_norow(self, r0, c0) ==
    [k \in 1 .. self.size |-> <<k - 1, c0>>]
    \o subgrid_coordinates(r0, c0)

\* the cells update visits, in the order of its two loops
update_coords(self, r0, c0) ==
    [k \in 1 .. (2 * self.size) |->
        IF k % 2 = 1 THEN <<r0, (k - 1) \div 2>>
                     ELSE <<(k - 1) \div 2, c0>>]
    \o subgrid_coordinates(r0, c0)

RECURSIVE remove_each(_, _, _, _)
remove_each(rows, coords, k, assignment) ==
    IF k > Len(coords) THEN rows
    ELSE LET i == coords[k][1]
             j == coords[k][2]
         IN  remove_each(
                 [rows EXCEPT ![i][j] = remove_if_exists(@, assignment)],
                 coords, k + 1, assignment)

\* update that does not count the assignment
update_no_count(self, r0, c0, assignment) ==
    [self EXCEPT
        !.rows = remove_each([self.rows EXCEPT ![r0][c0] = IntCell(assignment)],
                             update_coords(self, r0, c0), 1, assignment)]

\* update that writes rows[column][row] in place of rows[row][column]
update_swapped(self, r0, c0, assignment) ==
    [self EXCEPT
        !.rows = remove_each([self.rows EXCEPT ![c0][r0] = IntCell(assignment)],
                             update_coords(self, r0, c0), 1, assignment),
        !.num_nums_placed = @ + 1]

\* Board.update
update(self, r0, c0, assignment) ==
    [self EXCEPT
        !.rows = remove_each([self.rows EXCEPT ![r0][c0] = IntCell(assignment)],
                             update_coords(self, r0, c0), 1, assignment),
        !.num_nums_placed = @ + 1]

(***************************************************************************)
(* The heap.                                                               *)
(***************************************************************************)
\* a reference no live object uses
NewRef(h) ==
    CHOOSE n \in 0 .. Cardinality(DOMAIN h) :
        n \notin DOMAIN h /\ \A m \in 0 .. (n - 1) : m \in DOMAIN h

\* cpy = curr in place of a copy: the same object
deepcopy_alias(h, src) == [heap |-> h, ref |-> src]

\* copy.deepcopy(h[src]): a new object with the same contents
deepcopy(h, src) ==
    LET new == NewRef(h)
    IN  [heap |-> [id \in DOMAIN h \cup {new} |->
                       IF id = new THEN h[src] ELSE h[id]],
         ref |-> new]

\* objects no variable refers to any more are dropped
Collect(h, live) == [id \in (DOMAIN h) \cap live |-> h[id]]

Range(s) == {s[k] : k \in 1 .. Len(s)}

(***************************************************************************)
(* Inputs: the moves handed to test_dfs_or_bfs, one at a time.  The moves  *)
(* are first_moves or a prefix of a complete valid grid taken in row-major *)
(* order, followed by at most MaxSeeds free moves, or clash_moves.         *)
(***************************************************************************)
first_moves ==
    << <<0, 1, 7>>, <<0, 7, 1>>, <<1, 2, 9>>, <<1, 3, 7>>, <<1, 5, 4>>,
       <<1, 6, 2>>, <<2, 2, 8>>, <<2, 3, 9>>, <<2, 6, 3>>, <<3, 1, 4>>,
       <<3, 2, 3>>, <<3, 4, 6>>, <<4, 1, 9>>, <<4, 3, 1>>, <<4, 5, 8>>,
       <<4, 7, 7>>, <<5, 4, 2>>, <<5, 6, 1>>, <<5, 7, 5>>, <<6, 2, 4>>,
       <<6, 5, 5>>, <<6, 6, 7>>, <<7, 2, 7>>, <<7, 3, 4>>, <<7, 5, 1>>,
       <<7, 6, 9>>, <<8, 1, 3>>, <<8, 7, 8>> >>

Pattern(r, c) == ((3 * (r % 3) + (r \div 3) + c) % 9) + 1

PatternPrefix(n) ==
    [k \in 1 .. n |-> <<(k - 1) \div 9, (k - 1) % 9,
                        Pattern((k - 1) \div 9, (k - 1) % 9)>>]

\* the first 79 cells of the pattern grid with 8 instead of 7 in cell
\* (5, 8), then cell (0, 0) seeded a second time
clash_moves ==
    [PatternPrefix(79) EXCEPT ![54] = <<5, 8, 8>>] \o << <<0, 0, 1>> >>

FreeMoves == {<<0, c, v>> : c \in {0, 1, 2}, v \in {1, 2, 4, 7}}

\* the moves before the free moves
Base == SubSeq(moves, 1, Len(moves) - nfree)

OnPattern == Base = PatternPrefix(Len(Base))

\* the moves the caller may hand over next
NextMoves ==
    (IF nfree = 0 /\ OnPattern /\ Len(Base) < size * size
     THEN {<<PatternPrefix(Len(Base) + 1)[Len(Base) + 1], 0>>} ELSE {})
    \cup
    (IF nfree = 0 /\ Len(Base) < Len(first_moves)
                  /\ Base = SubSeq(first_moves, 1, Len(Base))
     THEN {<<first_moves[Len(Base) + 1], 0>>} ELSE {})
    \cup
    (IF nfree = 0 /\ Len(moves) < Len(clash_moves)
                  /\ moves = SubSeq(clash_moves, 1, Len(moves))
     THEN {<<clash_moves[Len(moves) + 1], 0>>} ELSE {})
    \cup
    (IF /\ nfree < MaxSeeds
        /\ \/ OnPattern /\ Len(Base) >= DenseFrom
           \/ Base = first_moves
     THEN {<<m, 1>> : m \in FreeMoves} ELSE {})

(***************************************************************************)
(* The driver test_dfs_or_bfs and DFS.                                     *)
(***************************************************************************)
Init ==
    /\ moves = << >>
    /\ nfree = 0
    /\ heap = [id \in {b} |-> Board_init]
    /\ pc = "setup"
    /\ stack = << >>
    /\ curr = None
    /\ row = 0
    /\ col = 0
    /\ possibilities = << >>
    /\ pi = 0
    /\ count = 0
    /\ result = None
    /\ queue = << >>
    /\ bfs_curr = None
    /\ pushed = {}

\* for move in moves: b.update(*move)
Driver_update ==
    /\ pc = "setup"
    /\ \E nm \in NextMoves :
          /\ moves' = Append(moves, nm[1])
          /\ nfree' = nfree + nm[2]
          /\ heap' = [heap EXCEPT
                         ![b] = update(@, nm[1][1], nm[1][2], nm[1][3])]
    /\ UNCHANGED <<pc, stack, curr, row, col, possibilities, pi, count,
                   result, queue, bfs_curr, pushed>>

\* the boards DFS is called on
StartOK ==
    \/ moves = << >>
    \/ Base = first_moves
    \/ OnPattern /\ Len(Base) >= MinMoves
    \/ moves = clash_moves

\* solution = DFS(b): stack = Stack([state]); count = 0
DFS_call ==
    /\ pc = "setup"
    /\ StartOK
    /\ stack' = <<b>>
    /\ count' = 0
    /\ pc' = "loop"
    /\ pushed' = {heap[b].rows}
    /\ UNCHANGED <<moves, nfree, heap, curr, row, col, possibilities, pi,
                   result, queue, bfs_curr>>

\* Stack: pop takes the entry pushed last, push adds on top of it
Top == stack[Len(stack)]
Rest == SubSeq(stack, 1, Len(stack) - 1)
push(s, x) == Append(s, x)

\* curr = stack.pop(); curr.goal_test() holds: return curr
DFS_goal ==
    /\ pc = "loop"
    /\ stack # << >>
    /\ goal_test(heap[Top])
    /\ curr' = Top
    /\ stack' = Rest
    /\ result' = Top
    /\ pc' = "done"
    /\ heap' = Collect(heap, Range(Rest) \cup {b, Top})
    /\ UNCHANGED <<moves, nfree, row, col, possibilities, pi, count, queue,
                   bfs_curr, pushed>>

\* curr = stack.pop(); neither goal nor branch: the board is dropped
DFS_failure ==
    /\ pc = "loop"
    /\ stack # << >>
    /\ ~ goal_test(heap[Top])
    /\ failure_test(heap[Top])
    /\ curr' = Top
    /\ stack' = Rest
    /\ heap' = Collect(heap, Range(Rest) \cup {b, Top})
    /\ UNCHANGED <<moves, nfree, pc, row, col, possibilities, pi, count,
                   result, queue, bfs_curr, pushed>>

\* curr = stack.pop(); mcc and possibilities are read for the for loop
DFS_branch ==
    /\ pc = "loop"
    /\ stack # << >>
    /\ ~ goal_test(heap[Top])
    /\ ~ failure_test(heap[Top])
    /\ LET mcc == find_most_constrained_cell(heap[Top])
           cell == heap[Top].rows[mcc[1]][mcc[2]]
       IN  /\ row' = mcc[1]
           /\ col' = mcc[2]
           /\ IF isinstance_list(cell)
              THEN /\ possibilities' = cell.list
                   /\ pi' = 1
                   /\ pc' = IF Len(cell.list) = 0 THEN "loop" ELSE "for"
              ELSE \* for pos in <int>: TypeError leaves DFS
                   /\ possibilities' = << >>
                   /\ pi' = 0
                   /\ pc' = "TypeError"
    /\ curr' = Top
    /\ stack' = Rest
    /\ heap' = Collect(heap, Range(Rest) \cup {b, Top})
    /\ UNCHANGED <<moves, nfree, count, result, queue, bfs_curr, pushed>>

\* the turn of the for loop with possibilities[0] in place of pos
DFS_child_first ==
    /\ pc = "for"
    /\ pi <= Len(possibilities)
    /\ LET cp == deepcopy(heap, curr)
           cpy == cp.ref
       IN  /\ heap' = [cp.heap EXCEPT
                          ![cpy] = update(@, row, col, possibilities[1])]
           /\ stack' = push(stack, cpy)
           /\ pushed' = pushed \cup {heap'[cpy].rows}
    /\ count' = count + 1
    /\ pi' = pi + 1
    /\ pc' = IF pi = Len(possibilities) THEN "loop" ELSE "for"
    /\ UNCHANGED <<moves, nfree, curr, row, col, possibilities, result,
                   queue, bfs_curr>>

\* one turn of the for loop: copy, update, count, push
DFS_child ==
    /\ pc = "for"
    /\ pi <= Len(possibilities)
    /\ LET cp == deepcopy(heap, curr)
           cpy == cp.ref
       IN  /\ heap' = [cp.heap EXCEPT
                          ![cpy] = update(@, row, col, possibilities[pi])]
           /\ stack' = push(stack, cpy)
           /\ pushed' = pushed \cup {heap'[cpy].rows}
    /\ count' = count + 1
    /\ pi' = pi + 1
    /\ pc' = IF pi = Len(possibilities) THEN "loop" ELSE "for"
    /\ UNCHANGED <<moves, nfree, curr, row, col, possibilities, result,
                   queue, bfs_curr>>

\* the stack is empty: return None
DFS_exhausted ==
    /\ pc = "loop"
    /\ stack = << >>
    /\ result' = None
    /\ pc' = "done"
    /\ UNCHANGED <<moves, nfree, heap, stack, curr, row, col, possibilities,
                   pi, count, queue, bfs_curr, pushed>>

\* solution = BFS(b): queue = Queue([state])
BFS_call ==
    /\ pc = "setup"
    /\ StartOK
    /\ queue' = <<b>>
    /\ pc' = "bfs_loop"
    /\ UNCHANGED <<moves, nfree, heap, stack, curr, row, col, possibilities,
                   pi, count, result, bfs_curr, pushed>>

\* Queue: pop takes the entry put in first
Front == Head(queue)
Behind == Tail(queue)

\* the loop of BFS with the goal test of DFS after the pop
BFS_pop_goal ==
    /\ pc = "bfs_loop"
    /\ queue # << >>
    /\ bfs_curr' = Front
    /\ queue' = Behind
    /\ IF goal_test(heap[Front])
       THEN result' = Front /\ pc' = "bfs_done"
       ELSE UNCHANGED <<result, pc>>
    /\ UNCHANGED <<moves, nfree, heap, stack, curr, row, col, possibilities,
                   pi, count, pushed>>

\* while not queue.is_empty(): curr = queue.pop()
BFS_pop ==
    /\ pc = "bfs_loop"
    /\ queue # << >>
    /\ bfs_curr' = Front
    /\ queue' = Behind
    /\ UNCHANGED <<moves, nfree, heap, pc, stack, curr, row, col,
                   possibilities, pi, count, result, pushed>>

\* the queue is empty: the function ends without a return statement
BFS_return ==
    /\ pc = "bfs_loop"
    /\ queue = << >>
    /\ result' = None
    /\ pc' = "bfs_done"
    /\ UNCHANGED <<moves, nfree, heap, stack, curr, row, col, possibilities,
                   pi, count, queue, bfs_curr, pushed>>

Next ==
    \/ Driver_update
    \/ DFS_call
    \/ DFS_goal
    \/ DFS_failure
    \/ DFS_branch
    \/ DFS_child
    \/ DFS_exhausted
    \/ BFS_call
    \/ BFS_pop
    \/ BFS_return

Spec == Init /\ [][Next]_vars

(***************************************************************************)
(* Vocabulary of the properties.                                           *)
(***************************************************************************)
Cells == Idx \X Idx

SameBox(p, q) == (p[1] \div 3 = q[1] \div 3) /\ (p[2] \div 3 = q[2] \div 3)

Peers(p, q) == p # q /\ (p[1] = q[1] \/ p[2] = q[2] \/ SameBox(p, q))

CellAt(bd, p) == bd.rows[p[1]][p[2]]

Fixed(bd, p) == isinstance_int(CellAt(bd, p))

NumFixed(bd) == Cardinality({p \in Cells : Fixed(bd, p)})

MoveCell(m) == <<m[1], m[2]>>

\* no cell is seeded twice
SeededOnce(ms) ==
    \A i \in 1 .. Len(ms) : \A j \in (i + 1) .. Len(ms) :
        MoveCell(ms[i]) # MoveCell(ms[j])

\* seeds i and j give the same value to two cells that see each other
Clash(ms, i, j) ==
    Peers(MoveCell(ms[i]), MoveCell(ms[j])) /\ ms[i][3] = ms[j][3]

\* mutually consistent seeds
Consistent(ms) ==
    /\ SeededOnce(ms)
    /\ \A i \in 1 .. Len(ms) : \A j \in (i + 1) .. Len(ms) : ~ Clash(ms, i, j)

\* a grid all of whose cells are assigned, with no value twice in a row,
\* column or subgrid, and every value in each of them
ValidGrid(bd) ==
    /\ \A p \in Cells : Fixed(bd, p) /\ CellAt(bd, p).int \in 1 .. 9
    /\ \A p \in Cells : \A q \in Cells :
          Peers(p, q) => CellAt(bd, p).int # CellAt(bd, q).int
    /\ \A k \in Idx : \A v \in 1 .. 9 :
          /\ Cardinality({c \in Idx : CellAt(bd, <<k, c>>).int = v}) = 1
          /\ Cardinality({r \in Idx : CellAt(bd, <<r, k>>).int = v}) = 1
          /\ Cardinality({p \in Cells :
                 /\ SameBox(p, <<3 * (k \div 3), 3 * (k % 3)>>)
                 /\ CellAt(bd, p).int = v}) = 1

\* the seeds as a grid over cell numbers 0 .. 80; 0 marks an unseeded cell
SeedGrid(ms) ==
    [k \in 0 .. 80 |->
        IF \E i \in 1 .. Len(ms) : MoveCell(ms[i]) = <<k \div 9, k % 9>>
        THEN ms[CHOOSE i \in 1 .. Len(ms) :
                    MoveCell(ms[i]) = <<k \div 9, k % 9>>][3]
        ELSE 0]

\* value v may go to cell number k of grid g
Fits(g, k, v) ==
    \A n \in 0 .. 80 :
        Peers(<<k \div 9, k % 9>>, <<n \div 9, n % 9>>) => g[n] # v

\* some complete valid grid extends g from cell number k on
RECURSIVE Completes(_, _)
Completes(g, k) ==
    IF k = 81 THEN TRUE
    ELSE IF g[k] # 0 THEN Completes(g, k + 1)
    ELSE \E v \in 1 .. 9 :
            Fits(g, k, v) /\ Completes([g EXCEPT ![k] = v], k + 1)

HasCompletion(ms) == Completes(SeedGrid(ms), 0)

(***************************************************************************)
(* C1: for mutually consistent seeds, every board DFS returns has all      *)
(* cells assigned, num_nums_placed equal to the number of cells, and every *)
(* row, column and subgrid holds each value exactly once.                  *)
(***************************************************************************)
C1_ReturnedBoardIsSolved ==
    (pc = "done" /\ result # None /\ Consistent(moves))
        => /\ heap[result].num_nums_placed = 81
           /\ NumFixed(heap[result]) = 81
           /\ ValidGrid(heap[result])

\* DFS returned a board it had to search for, after dropping a failed board
C1_Witness ==
    /\ pc = "done"
    /\ result # None
    /\ result # b
    /\ Consistent(moves)
    /\ count > 81 - Len(moves)

(***************************************************************************)
(* C2: for mutually consistent seeds, DFS returns None only if no complete *)
(* valid grid extends the seeds.                                           *)
(***************************************************************************)
C2_NoneOnlyIfUnsolvable ==
    (pc = "done" /\ result = None /\ Consistent(moves))
        => ~ HasCompletion(moves)

\* DFS returned None on consistent seeds
C2_Witness ==
    /\ pc = "done"
    /\ result = None
    /\ Consistent(moves)
    /\ count > 0

(***************************************************************************)
(* C3: DFS on any seeded board ends by returning a goal board or None; it  *)
(* never ends in another way.                                              *)
(***************************************************************************)
C3_DFSReturns == pc # "TypeError"

(***************************************************************************)
(* C4 as stated: on every board, after any sequence of update calls,       *)
(* num_nums_placed equals the number of assigned cells.                    *)
(***************************************************************************)
C4_CountEqualsFixed ==
    \A id \in DOMAIN heap : heap[id].num_nums_placed = NumFixed(heap[id])

(***************************************************************************)
(* C4 amended: when no update targets an already assigned cell,            *)
(* num_nums_placed equals the number of assigned cells on every board.     *)
(***************************************************************************)
C4_CountEqualsFixedSeededOnce ==
    SeededOnce(moves) => C4_CountEqualsFixed

\* a board built by the search on top of seeds that hit every cell once
C4_Witness ==
    /\ SeededOnce(moves)
    /\ Len(moves) > 0
    /\ \E id \in DOMAIN heap :
          /\ id # b
          /\ heap[id].num_nums_placed > Len(moves) + 1

\* the peers of each cell
PeerSet == [p \in Cells |-> {q \in Cells : Peers(p, q)}]

\* the board update has been called on last: the caller's board while it
\* is seeded, the newest child during the search
Updated ==
    IF pc = "setup" THEN {b} ELSE IF stack # << >> THEN {Top} ELSE {}

(***************************************************************************)
(* C5: after every update, whatever the sequence of updates before it, no  *)
(* list cell in the row, column or subgrid of an assigned cell of the      *)
(* board holds the assigned value.                                         *)
(***************************************************************************)
C5_Elimination ==
    \A id \in Updated \cap DOMAIN heap : \A p \in Cells :
        Fixed(heap[id], p) =>
            \A q \in PeerSet[p] :
                Fixed(heap[id], q)
                \/ ~ In(CellAt(heap[id], p).int, CellAt(heap[id], q).list)

\* an assigned cell with a non-empty list cell among its peers, on a board
\* seeded with a free move and then updated by the search
C5_Witness ==
    /\ nfree > 0
    /\ pc = "for"
    /\ stack # << >>
    /\ \E p \in Cells : \E q \in PeerSet[p] :
          /\ Fixed(heap[Top], p)
          /\ ~ Fixed(heap[Top], q)
          /\ Len(CellAt(heap[Top], q).list) > 0

\* some list cell of the board is empty
HasEmptyList(bd) ==
    \E p \in Cells : ~ Fixed(bd, p) /\ Len(CellAt(bd, p).list) = 0

\* the seeds clash in exactly one pair of cells, which share a row
RowClashOnly(ms) ==
    /\ SeededOnce(ms)
    /\ \E i \in 1 .. Len(ms) : \E j \in (i + 1) .. Len(ms) :
          /\ ms[i][1] = ms[j][1]
          /\ ms[i][3] = ms[j][3]
          /\ \A k \in 1 .. Len(ms) : \A l \in (k + 1) .. Len(ms) :
                Clash(ms, k, l) => (k = i /\ l = j)

KeepsFixed(old, new, except) ==
    \A p \in Cells \ except :
        Fixed(old, p) => CellAt(new, p) = CellAt(old, p)

C7_FixedNeverChanges ==
    [][/\ \A id \in DOMAIN heap \cap DOMAIN heap' :
             KeepsFixed(heap[id], heap'[id], {})
       /\ \A id \in DOMAIN heap' \ DOMAIN heap :
             KeepsFixed(heap[curr], heap'[id], {})]_vars

(***************************************************************************)
(* C7 amended: an assigned cell keeps its value through every later update *)
(* that targets another cell, the search never updates an assigned cell,   *)
(* and only a seeding update of the assigned cell itself replaces its      *)
(* value.                                                                  *)
(***************************************************************************)
C7_FixedChangesOnlyWhenReseeded ==
    [][/\ \A id \in DOMAIN heap \cap DOMAIN heap' :
             KeepsFixed(heap[id], heap'[id],
                        IF id = b /\ moves' # moves
                        THEN {MoveCell(moves'[Len(moves')])} ELSE {})
       /\ \A id \in DOMAIN heap' \ DOMAIN heap :
             /\ KeepsFixed(heap[curr], heap'[id], {})
             /\ ~ Fixed(heap[curr], <<row, col>>)]_vars

\* a child board whose parent already had assigned cells in the row, the
\* column and the subgrid of the cell the search assigns
C7_Witness ==
    /\ pc = "for"
    /\ pi > 1
    /\ nfree > 0
    /\ \E p \in PeerSet[<<row, col>>] : Fixed(heap[curr], p)

(***************************************************************************)
(* C8: one turn of the for loop adds one board, the popped board with one  *)
(* update applied, and pushes it; the popped board, the children pushed    *)
(* before and every other stack entry keep their cells and count.          *)
(***************************************************************************)
C8_ChildIsolated ==
    [][pc = "for" =>
          /\ \A id \in DOMAIN heap :
                id \in DOMAIN heap' /\ heap'[id] = heap[id]
          /\ \E new \in DOMAIN heap' \ DOMAIN heap :
                /\ stack' = Append(stack, new)
                /\ heap'[new] =
                       update(heap[curr], row, col, possibilities[pi])
                /\ DOMAIN heap' = DOMAIN heap \cup {new}
          /\ curr' = curr]_vars

\* a second child has been pushed next to its sibling
C8_Witness ==
    /\ pc = "for"
    /\ pi > 1
    /\ Len(stack) > 1
    /\ heap[Top] # heap[curr]
    /\ heap[Top] # heap[stack[Len(stack) - 1]]

\* the list cells of a board
ListCells(bd) == {p \in Cells : ~ Fixed(bd, p)}

RowMajor(p) == 9 * p[1] + p[2]

(***************************************************************************)
(* C9: on every board with a list cell, find_most_constrained_cell returns *)
(* a list cell of minimum length, the first such cell in row-major order.  *)
(***************************************************************************)
C9_MostConstrained ==
    \A id \in Updated \cap DOMAIN heap :
        ListCells(heap[id]) # {} =>
            LET m == find_most_constrained_cell(heap[id])
            IN  /\ m \in ListCells(heap[id])
                /\ \A q \in ListCells(heap[id]) :
                      \/ Len(CellAt(heap[id], m).list)
                            < Len(CellAt(heap[id], q).list)
                      \/ /\ Len(CellAt(heap[id], m).list)
                               = Len(CellAt(heap[id], q).list)
                         /\ RowMajor(m) <= RowMajor(q)

\* the search branches on a cell of two possibilities that ties with a
\* later cell
C9_Witness ==
    /\ pc = "for"
    /\ Len(possibilities) = 2
    /\ \E q \in ListCells(heap[curr]) :
          /\ q # <<row, col>>
          /\ Len(CellAt(heap[curr], q).list) = 2
          /\ RowMajor(q) > RowMajor(<<row, col>>)

\* the caller's board has every cell assigned and counts 81 assignments
InputIsGoal ==
    /\ NumFixed(heap[b]) = 81
    /\ heap[b].num_nums_placed = 81

(***************************************************************************)
(* C10: DFS called on a board that is already a goal returns that very     *)
(* board on the first pop; no copy is made and nothing is pushed.          *)
(***************************************************************************)
C10_GoalInputReturned ==
    (pc \in {"loop", "for", "done", "TypeError"} /\ InputIsGoal) =>
        /\ DOMAIN heap = {b}
        /\ count = 0
        /\ \/ pc = "loop" /\ stack = <<b>> /\ curr = None
           \/ pc = "done" /\ stack = << >> /\ curr = b /\ result = b

\* DFS has returned the caller's complete board
C10_Witness ==
    /\ InputIsGoal
    /\ pc = "done"
    /\ result = b

\* DFS is running or has ended
InDFS == pc \in {"loop", "for", "done", "TypeError"}

(***************************************************************************)
(* C11: DFS on the board seeded with first_moves ends, after no more than  *)
(* 58 pushes, by returning a board that counts 81 assignments, passes      *)
(* goal_test and holds each value once in every row, column and subgrid.   *)
(***************************************************************************)
C11_FirstMovesSolved ==
    (InDFS /\ moves = first_moves) =>
        /\ pc # "TypeError"
        /\ count <= 58
        /\ (pc = "for" => pi <= Len(possibilities))
        /\ (pc = "done" =>
              /\ result # None
              /\ heap[result].num_nums_placed = 81
              /\ goal_test(heap[result])
              /\ ValidGrid(heap[result]))

\* DFS has returned a board for first_moves after its 58 pushes
C11_Witness ==
    /\ moves = first_moves
    /\ pc = "done"
    /\ result \notin {None, b}
    /\ count = 58

\* curr is the board the last branch step popped, and its for loop is over
Branched ==
    /\ pc = "loop"
    /\ curr # None
    /\ ~ Fixed(heap[curr], <<row, col>>)
    /\ CellAt(heap[curr], <<row, col>>).list = possibilities
    /\ pi = Len(possibilities) + 1

(***************************************************************************)
(* C12: the possibilities of a branch are ascending and its children are   *)
(* pushed in that order, each on top of the stack; every pop takes the top *)
(* entry and leaves the entries below in place, so the first pop after a   *)
(* branch takes the child of the largest value, and the entries of the     *)
(* stack never hold more assignments than the entries above them: a child  *)
(* and its descendants leave the stack before its earlier siblings, and    *)
(* these before the entries that were there when the branch began.         *)
(***************************************************************************)
C12_LIFO ==
    [][InDFS =>
          /\ \A k \in 1 .. (Len(possibilities) - 1) :
                possibilities[k] < possibilities[k + 1]
          /\ \A k \in 1 .. (Len(stack) - 1) :
                heap[stack[k]].num_nums_placed
                    <= heap[stack[k + 1]].num_nums_placed
          /\ (pc = "for" =>
                /\ Len(stack') = Len(stack) + 1
                /\ SubSeq(stack', 1, Len(stack)) = stack
                /\ CellAt(heap'[stack'[Len(stack')]], <<row, col>>)
                       = IntCell(possibilities[pi])
                /\ \A k \in 1 .. (pi - 1) :
                      CellAt(heap[stack[Len(stack) - (pi - 1) + k]],
                             <<row, col>>) = IntCell(possibilities[k])
                /\ \A k \in 1 .. (Len(stack) - (pi - 1)) :
                      heap[stack[k]].num_nums_placed
                          <= heap[curr].num_nums_placed)
          /\ (pc = "loop" /\ stack # << >> =>
                /\ stack' = SubSeq(stack, 1, Len(stack) - 1)
                /\ curr' = stack[Len(stack)]
                /\ heap'[curr'] = heap[stack[Len(stack)]]
                /\ (Branched /\ possibilities # << >> =>
                       CellAt(heap'[curr'], <<row, col>>)
                           = IntCell(possibilities[Len(possibilities)])))]_vars

\* a branch on two or more values has pushed its children on top of older
\* entries
C12_Witness ==
    /\ Branched
    /\ Len(possibilities) >= 2
    /\ Len(stack) > Len(possibilities)

(***************************************************************************)
(* C13: failure is found at the pop only: every turn of the for loop       *)
(* pushes its child, also one with an empty list, and the pop of a child   *)
(* with an empty list drops it: DFS goes on with the loop, returns         *)
(* nothing, copies nothing, and the entries left on the stack stay as they *)
(* are.                                                                    *)
(***************************************************************************)
C13_FailureFoundAtPop ==
    [][/\ (pc = "for" =>
             /\ Len(stack') = Len(stack) + 1
             /\ stack'[Len(stack')] \notin DOMAIN heap)
       /\ (/\ pc = "loop"
           /\ stack # << >>
           /\ stack[Len(stack)] # b
           /\ HasEmptyList(heap[stack[Len(stack)]])
           => /\ pc' = "loop"
              /\ result' = result
              /\ count' = count
              /\ stack' = SubSeq(stack, 1, Len(stack) - 1)
              /\ \A k \in 1 .. Len(stack') :
                    heap'[stack'[k]] = heap[stack[k]])]_vars

\* lst without elem
Without(lst, elem) == SelectSeq(lst, LAMBDA x : x # elem)

\* new is old after update(r0, c0, v) as far as the claim allows a change
Frame(old, new, r0, c0, v) ==
    /\ new.size = old.size
    /\ new.num_nums_placed = old.num_nums_placed + 1
    /\ CellAt(new, <<r0, c0>>) = IntCell(v)
    /\ \A p \in Cells \ {<<r0, c0>>} :
          \/ CellAt(new, p) = CellAt(old, p)
          \/ /\ p \in PeerSet[<<r0, c0>>]
             /\ ~ Fixed(old, p)
             /\ ~ Fixed(new, p)
             /\ CellAt(new, p).list = Without(CellAt(old, p).list, v)

(***************************************************************************)
(* C14: every update(r, c, v), in seeding and in search, sets cell (r, c), *)
(* adds one to num_nums_placed and leaves every other cell as it was,      *)
(* except that the list cells in row r, column c and the subgrid of (r, c) *)
(* may lose v and nothing else.                                            *)
(***************************************************************************)
C14_UpdateFrame ==
    [][/\ (pc = "setup" /\ moves' # moves =>
             LET m == moves'[Len(moves')]
             IN  Frame(heap[b], heap'[b], m[1], m[2], m[3]))
       /\ (pc = "for" =>
             Frame(heap[curr], heap'[stack'[Len(stack')]],
                   row, col, possibilities[pi]))]_vars

\* the child on top of the stack differs from the popped board in a list
\* of a peer of the assigned cell, and both hold an assigned peer and a
\* non-empty list outside the row, column and subgrid of that cell
C14_Witness ==
    /\ pc = "for"
    /\ pi > 1
    /\ stack # << >>
    /\ CellAt(heap[Top], <<row, col>>) = IntCell(possibilities[pi - 1])
    /\ \E p \in PeerSet[<<row, col>>] :
          /\ ~ Fixed(heap[curr], p)
          /\ CellAt(heap[Top], p) # CellAt(heap[curr], p)
    /\ \E p \in PeerSet[<<row, col>>] : Fixed(heap[curr], p)
    /\ \E p \in Cells \ (PeerSet[<<row, col>>] \cup {<<row, col>>}) :
          /\ ~ Fixed(heap[Top], p)
          /\ CellAt(heap[Top], p).list # << >>

(***************************************************************************)
(* C15: in DFS on consistently seeded boards, the cell a branch step gets  *)
(* from find_most_constrained_cell is a list cell with a non-empty list,   *)
(* DFS never iterates over an assigned cell, and every update of the       *)
(* search assigns to that list cell a value of its list.                   *)
(***************************************************************************)
C15_BranchOnListCell ==
    (InDFS /\ Consistent(moves)) =>
        /\ pc # "TypeError"
        /\ (pc = "for" =>
              /\ ~ Fixed(heap[curr], <<row, col>>)
              /\ CellAt(heap[curr], <<row, col>>).list = possibilities
              /\ pi \in 1 .. Len(possibilities)
              /\ In(possibilities[pi], CellAt(heap[curr], <<row, col>>).list))

\* the search branches on a list cell other than (0, 0) while (0, 0) is
\* assigned, and has pushed a child
C15_Witness ==
    /\ pc = "for"
    /\ Consistent(moves)
    /\ Fixed(heap[curr], <<0, 0>>)
    /\ <<row, col>> # <<0, 0>>
    /\ pi > 1

(***************************************************************************)
(* C16: in a DFS run from a consistently seeded board, the boards that     *)
(* have been on the stack, the caller's board and the count pushed ones,   *)
(* differ pairwise in their cells, and the ones on the stack differ from   *)
(* the board popped last.                                                  *)
(***************************************************************************)
C16_NoBoardTwice ==
    (InDFS /\ Consistent(moves)) =>
        /\ Cardinality(pushed) = count + 1
        /\ \A k \in 1 .. Len(stack) : heap[stack[k]].rows \in pushed
        /\ (curr # None =>
              \A k \in 1 .. Len(stack) :
                  heap[stack[k]].rows # heap[curr].rows)

\* DFS has ended after pushing the children of several branches, some of
\* them on the same cell
C16_Witness ==
    /\ pc = "done"
    /\ Consistent(moves)
    /\ count > 81 - Len(moves)
    /\ Cardinality(pushed) > 20

(***************************************************************************)
(* C17: on every board of a run on consistent seeds, the caller's board    *)
(* while it is seeded and every board of the search, goal_test and         *)
(* failure_test do not both hold, and the board DFS returns has no empty   *)
(* list.                                                                   *)
(***************************************************************************)
C17_GoalExcludesFailure ==
    Consistent(moves) =>
        /\ \A id \in DOMAIN heap :
              ~ (goal_test(heap[id]) /\ failure_test(heap[id]))
        /\ (pc = "done" /\ result # None => ~ HasEmptyList(heap[result]))

\* on consistent seeds DFS has returned a goal board, which is no failure,
\* after pushing more boards than there were cells to assign
C17_Witness ==
    /\ Consistent(moves)
    /\ pc = "done"
    /\ result # None
    /\ heap[result].num_nums_placed = 81
    /\ ~ failure_test(heap[result])
    /\ count > 81 - Len(moves)

\* BFS is running or has ended
InBFS == pc \in {"bfs_loop", "bfs_done"}

====
